---- MODULE Spec2Model ----
(***************************************************************************)
(* Running-average accumulators of neuralprophet/metrics.py: the Metric    *)
(* base class and its variants MAE, MSE, Loss and Value.                   *)
(*                                                                         *)
(* Floating point numbers are modelled as exact fractions <<p, q>> in      *)
(* lowest terms with q > 0; the fraction <<0, 0>> is NaN (what torch.mean  *)
(* gives for an empty tensor), and NaN absorbs every arithmetic operation. *)
(* Tensors handed to update are one-dimensional sequences of integers,     *)
(* predicted and target of equal shape.                                    *)
(***************************************************************************)
EXTENDS Integers, Sequences, FiniteSets, TLC

\* ---------------------------------------------------------------- bounds
MaxBatch == 2        \* largest leading dimension of a batch
MaxUpdates == 2      \* update calls per accumulator lifetime
MaxStored == 2       \* compute(save=True) calls per accumulator lifetime
MaxNum == 2          \* largest weight handed to Value.update

\* ------------------------------------------------------- float arithmetic
NaN == <<0, 0>>
Zero == <<0, 1>>
None == <<0, -1>>    \* "no value returned" (the call raised, or returns None)

Abs(x) == IF x < 0 THEN -x ELSE x

RECURSIVE GCD(_, _)
GCD(a, b) == IF b = 0 THEN a ELSE GCD(b, a % b)

\* the float p / q
Norm(p, q) ==
    IF q = 0 THEN NaN
    ELSE LET g == GCD(Abs(p), Abs(q))
             s == IF q < 0 THEN -1 ELSE 1
         IN  <<(s * p) \div g, (s * q) \div g>>

IsNaN(a) == a[2] = 0

Add(a, b) == IF IsNaN(a) \/ IsNaN(b) THEN NaN
             ELSE Norm(a[1] * b[2] + b[1] * a[2], a[2] * b[2])

\* float * int
MulInt(a, n) == IF IsNaN(a) THEN NaN ELSE Norm(a[1] * n, a[2])

\* float / int, n # 0
DivInt(a, n) == IF IsNaN(a) THEN NaN ELSE Norm(a[1], a[2] * n)

\* ------------------------------------------------------------ tensor ops
\* the values a tensor element takes
Elems == {0, 2}

\* the one-dimensional tensors of leading dimension n
Tensors(n) == [1..n -> Elems]

BatchSizes == 0..MaxBatch

\* target.shape[0]
Shape0(t) == Len(t)

RECURSIVE SumSeq(_)
SumSeq(s) == IF s = <<>> THEN 0 ELSE Head(s) + SumSeq(Tail(s))

\* torch.mean(x).item(); NaN on the empty tensor
Mean(x) == Norm(SumSeq(x), Len(x))

\* torch.abs(predicted - target)
AbsErrors(predicted, target) ==
    [i \in 1..Len(target) |-> Abs(predicted[i] - target[i])]

\* torch.pow(predicted - target, 2)
SquaredErrors(predicted, target) ==
    [i \in 1..Len(target) |->
        (predicted[i] - target[i]) * (predicted[i] - target[i])]

\* what an injected loss_fn may return: a scalar tensor (shape ()) or a
\* one-element tensor of rank one (shape (1,)), holding any small value
LossValues == {<<1, 2>>, <<3, 1>>}
LossReturns == [shape : {<<>>, <<1>>}, val : LossValues]

\* what a caller may hand to Value.update as avg_value
AvgValues == {<<-1, 2>>, <<1, 10>>}

Classes == {"MAE", "MSE", "Loss", "Value"}

\* self.name after construction: the class name for MAE and MSE, the class
\* name of the loss function for Loss, the given name for Value
NameOf(c) == CASE c = "MAE" -> "MAE"
               [] c = "MSE" -> "MSE"
               [] c = "Loss" -> "MSELoss"
               [] c = "Value" -> "lr"

\* ----------------------------------------------------------------- state
VARIABLES
    cls,            \* concrete class of the accumulator
    name,           \* self.name
    _sum,           \* self._sum
    _num_examples,  \* self._num_examples
    stored_values,  \* self.stored_values
    total_updates,  \* self.total_updates
    op,             \* the method called last
    save,           \* the save argument of the last compute
    err,            \* the exception the last call raised, or "none"
    ret,            \* the value the last call returned, or None
    average_loss,   \* update's batch reduction (a tensor: shape and value)
    num,            \* update's weight
    batches,        \* <<reduction, weight>> of the updates since the last reset
    calls,          \* number of update calls since construction
    returned        \* values returned by successful compute(save=True) calls

vars == <<cls, name, _sum, _num_examples, stored_values, total_updates,
          op, save, err, ret, average_loss, num, batches, calls, returned>>

NoTensor == [shape |-> <<>>, val |-> Zero]

Init ==
    /\ cls \in Classes
    /\ name = NameOf(cls)
    /\ _sum = Zero
    /\ _num_examples = 0
    /\ stored_values = <<>>
    /\ total_updates = 0
    /\ op = "init"
    /\ save = FALSE
    /\ err = "none"
    /\ ret = None
    /\ average_loss = NoTensor
    /\ num = 0
    /\ batches = <<>>
    /\ calls = 0
    /\ returned = <<>>

\* ------------------------------------------------------------ operations
\* the bookkeeping every update call shares: the call is counted and the
\* batch it was given is remembered
Called(r, n) ==
    /\ op' = "update"
    /\ save' = FALSE
    /\ ret' = None
    /\ average_loss' = r
    /\ num' = n
    /\ calls' = calls + 1
    /\ UNCHANGED <<cls, name, stored_values, returned>>

\* a mean of means: the batch's weight is dropped from the contribution
AccumulateUnweighted(s, r, n) == Add(s, r)

\* self._sum += reduction * num
Accumulate(s, r, n) == Add(s, MulInt(r, n))

\* a reset that also clears the saved values
reset_clearing_stored ==
    /\ _sum' = Zero
    /\ _num_examples' = 0
    /\ stored_values' = <<>>
    /\ op' = "reset"
    /\ save' = FALSE
    /\ err' = "none"
    /\ ret' = None
    /\ batches' = <<>>
    /\ UNCHANGED <<cls, name, total_updates, average_loss, num, calls,
                   returned>>

\* a reset to the whole initial state, the update counter included
reset_clearing_updates ==
    /\ _sum' = Zero
    /\ _num_examples' = 0
    /\ total_updates' = 0
    /\ op' = "reset"
    /\ save' = FALSE
    /\ err' = "none"
    /\ ret' = None
    /\ batches' = <<>>
    /\ UNCHANGED <<cls, name, stored_values, average_loss, num, calls,
                   returned>>

reset ==
    /\ _sum' = Zero
    /\ _num_examples' = 0
    /\ op' = "reset"
    /\ save' = FALSE
    /\ err' = "none"
    /\ ret' = None
    /\ batches' = <<>>
    /\ UNCHANGED <<cls, name, stored_values, total_updates, average_loss,
                   num, calls, returned>>

MAE_update ==
    /\ cls = "MAE"
    /\ total_updates < MaxUpdates
    /\ \E size \in BatchSizes : \E predicted, target \in Tensors(size) :
           LET n == Shape0(target)
               absolute_errors == AbsErrors(predicted, target)
               r == Mean(absolute_errors)
           IN  /\ total_updates' = total_updates + 1
               /\ _sum' = Accumulate(_sum, r, n)
               /\ _num_examples' = _num_examples + Shape0(target)
               /\ err' = "none"
               /\ batches' = Append(batches, <<r, n>>)
               /\ Called([shape |-> <<>>, val |-> r], n)

MSE_update ==
    /\ cls = "MSE"
    /\ total_updates < MaxUpdates
    /\ \E size \in BatchSizes : \E predicted, target \in Tensors(size) :
           LET n == Shape0(target)
               squared_errors == SquaredErrors(predicted, target)
               r == Mean(squared_errors)
           IN  /\ total_updates' = total_updates + 1
               /\ _sum' = Accumulate(_sum, r, n)
               /\ _num_examples' = _num_examples + n
               /\ err' = "none"
               /\ batches' = Append(batches, <<r, n>>)
               /\ Called([shape |-> <<>>, val |-> r], n)

\* a check that lets one-dimensional tensors through
NotScalarOrVector(t) == Len(t.shape) > 1

\* len(average_loss.shape) != 0
NotScalar(t) == Len(t.shape) # 0

\* an update that counts the call only once the loss is accepted
Loss_update_counting_late ==
    /\ cls = "Loss"
    /\ total_updates < MaxUpdates
    /\ \E size \in BatchSizes :
       \E target \in Tensors(size), loss \in LossReturns :
        LET n == Shape0(target)
        IN  /\ IF NotScalar(loss)
               THEN /\ err' = "ShapeError"
                    /\ UNCHANGED <<_sum, _num_examples, batches,
                                   total_updates>>
               ELSE /\ err' = "none"
                    /\ total_updates' = total_updates + 1
                    /\ _sum' = Accumulate(_sum, loss.val, n)
                    /\ _num_examples' = _num_examples + n
                    /\ batches' = Append(batches, <<loss.val, n>>)
            /\ Called(loss, n)

\* an update that accumulates the batch before it checks the loss's shape
Loss_update_checking_late ==
    /\ cls = "Loss"
    /\ total_updates < MaxUpdates
    /\ \E size \in BatchSizes :
       \E target \in Tensors(size), loss \in LossReturns :
        LET n == Shape0(target)
        IN  /\ total_updates' = total_updates + 1
            /\ _sum' = Accumulate(_sum, loss.val, n)
            /\ _num_examples' = _num_examples + n
            /\ IF NotScalar(loss)
               THEN /\ err' = "ShapeError"
                    /\ UNCHANGED batches
               ELSE /\ err' = "none"
                    /\ batches' = Append(batches, <<loss.val, n>>)
            /\ Called(loss, n)

Loss_update ==
    /\ cls = "Loss"
    /\ total_updates < MaxUpdates
    /\ \E size \in BatchSizes :
       \E target \in Tensors(size), loss \in LossReturns :
        LET n == Shape0(target)
        IN  /\ total_updates' = total_updates + 1
            /\ IF NotScalar(loss)
               THEN /\ err' = "ShapeError"
                    /\ UNCHANGED <<_sum, _num_examples, batches>>
               ELSE /\ err' = "none"
                    /\ _sum' = Accumulate(_sum, loss.val, n)
                    /\ _num_examples' = _num_examples + n
                    /\ batches' = Append(batches, <<loss.val, n>>)
            /\ Called(loss, n)

Value_update ==
    /\ cls = "Value"
    /\ total_updates < MaxUpdates
    /\ \E avg_value \in AvgValues, n \in (-1)..MaxNum :
        /\ total_updates' = total_updates + 1
        /\ _sum' = Accumulate(_sum, avg_value, n)
        /\ _num_examples' = _num_examples + n
        /\ err' = "none"
        /\ batches' = Append(batches, <<avg_value, n>>)
        /\ Called([shape |-> <<>>, val |-> avg_value], n)

\* a guard that only rejects a negative count
NoSampleNegative(n) == n < 0

\* a guard on the number of update calls instead of the accumulated weight
NoSampleNoUpdate(n) == total_updates = 0

\* if self._num_examples == 0: self.no_sample_error()
NoSample(n) == n = 0

\* the value is stored whatever save says
StoredAlways(sv, value) == Append(stored_values, value)

\* if save: self.stored_values.append(value)
StoredAfter(sv, value) == IF sv THEN Append(stored_values, value)
                          ELSE stored_values

\* the outcome of one evaluation of compute(sv): the exception raised, the
\* value returned and stored_values afterwards
Computed(sv) ==
    IF NoSample(_num_examples)
    THEN [err |-> "NoSampleError", ret |-> None, stored |-> stored_values]
    ELSE IF _num_examples = 0
    THEN [err |-> "ZeroDivisionError", ret |-> None, stored |-> stored_values]
    ELSE LET value == DivInt(_sum, _num_examples)
         IN  [err |-> "none", ret |-> value,
              stored |-> StoredAfter(sv, value)]

compute ==
    \E sv \in BOOLEAN :
        /\ sv => Len(stored_values) < MaxStored
        /\ LET c == Computed(sv)
           IN  /\ err' = c.err
               /\ ret' = c.ret
               /\ stored_values' = c.stored
               /\ returned' = IF sv /\ c.err = "none"
                              THEN Append(returned, c.ret) ELSE returned
        /\ op' = "compute"
        /\ save' = sv
        /\ UNCHANGED <<cls, name, _sum, _num_examples, total_updates,
                       average_loss, num, batches, calls>>

\* "{:8.3f}": the value rounded to three decimals (NaN prints as nan)
Format3(a) ==
    IF IsNaN(a) THEN NaN
    ELSE LET m == (2 * Abs(a[1]) * 1000 + a[2]) \div (2 * a[2])
         IN  Norm(IF a[1] < 0 THEN -m ELSE m, 1000)

\* __str__: "{}: {:8.3f}".format(self.name, self.compute())
str ==
    /\ LET c == Computed(FALSE)
       IN  /\ err' = c.err
           /\ ret' = IF c.err = "none" THEN Format3(c.ret) ELSE None
           /\ stored_values' = c.stored
    /\ op' = "str"
    /\ save' = FALSE
    /\ UNCHANGED <<cls, name, _sum, _num_examples, total_updates,
                   average_loss, num, batches, calls, returned>>

Next == reset \/ MAE_update \/ MSE_update \/ Loss_update \/ Value_update
        \/ compute \/ str

Spec == Init /\ [][Next]_vars

\* ------------------------------------------------------------ properties
RECURSIVE WeightedSum(_)
WeightedSum(b) ==
    IF b = <<>> THEN Zero
    ELSE Add(MulInt(Head(b)[1], Head(b)[2]), WeightedSum(Tail(b)))

RECURSIVE WeightTotal(_)
WeightTotal(b) == IF b = <<>> THEN 0 ELSE Head(b)[2] + WeightTotal(Tail(b))

IsPrefix(s, t) == Len(s) <= Len(t) /\ SubSeq(t, 1, Len(s)) = s

\* C1: after the updates made since construction or the last reset, with
\* reductions r_i and weights n_i of positive total, compute() succeeds and
\* returns Sum(r_i * n_i) / Sum(n_i); earlier updates do not count.  (An
\* empty batch has the reduction NaN, and then both sides are NaN.)
C1_WeightedMean ==
    (op = "compute" /\ WeightTotal(batches) > 0) =>
        /\ err = "none"
        /\ ret = DivInt(WeightedSum(batches), WeightTotal(batches))

\* two batches of unequal weight and unequal reduction were averaged
C1_Witness ==
    /\ op = "compute"
    /\ err = "none"
    /\ Len(batches) = 2
    /\ batches[1][2] > 0 /\ batches[2][2] > 0
    /\ batches[1][2] # batches[2][2]
    /\ batches[1][1] # batches[2][1]
    /\ ~IsNaN(ret)

\* C2: compute() and the string render raise NoSampleError whenever
\* sample_count = 0 and succeed whenever sample_count > 0; the division is
\* never reached with sample_count = 0.
C2_NoSampleGuard ==
    /\ err # "ZeroDivisionError"
    /\ op \in {"compute", "str"} =>
        /\ _num_examples = 0 => (err = "NoSampleError" /\ ret = None)
        /\ _num_examples > 0 => (err = "none" /\ ret # None)

\* the render failed after updates had been made and then reset away
C2_Witness ==
    /\ op = "str"
    /\ err = "NoSampleError"
    /\ total_updates > 0
    /\ batches = <<>>

\* C3: reset() sets running_sum and sample_count to 0 and leaves history,
\* update_count and name as they were.
C3_ResetFrame ==
    [][op' = "reset" =>
        /\ _sum' = Zero
        /\ _num_examples' = 0
        /\ stored_values' = stored_values
        /\ total_updates' = total_updates
        /\ name' = name]_vars

\* a reset of an accumulator that had samples, saved values and updates
C3_Witness ==
    /\ op = "reset"
    /\ stored_values # <<>>
    /\ total_updates > 0
    /\ _num_examples = 0

\* C4: a successful compute(save=false) changes no field; a successful
\* compute(save=true) appends the value it returns to history and changes
\* nothing else.
C4_ComputeFrame ==
    [][(op' = "compute" /\ err' = "none") =>
        /\ _sum' = _sum
        /\ _num_examples' = _num_examples
        /\ total_updates' = total_updates
        /\ name' = name
        /\ stored_values' = IF save' THEN Append(stored_values, ret')
                            ELSE stored_values]_vars

\* a saving compute appended its value to a history that was not empty
C4_Witness ==
    /\ op = "compute"
    /\ save
    /\ err = "none"
    /\ Len(stored_values) = 2
    /\ stored_values[2] = ret

\* C5: update_count grows by exactly 1 on every update call, failed or
\* not, and is changed by nothing else; it equals the number of update
\* calls made since construction.
C5_UpdateCount ==
    /\ [](total_updates = calls)
    /\ [][total_updates' = IF op' = "update" THEN total_updates + 1
                           ELSE total_updates]_vars

\* a Generic-Loss update that raised ShapeError was counted
C5_Witness ==
    /\ op = "update"
    /\ err = "ShapeError"
    /\ total_updates = 2

\* C6 (as claimed): an operation that raises leaves every field as it was.
C6_Atomic ==
    [][err' # "none" =>
        /\ _sum' = _sum
        /\ _num_examples' = _num_examples
        /\ stored_values' = stored_values
        /\ total_updates' = total_updates]_vars

\* C6 (amended): an operation that raises leaves running_sum, sample_count
\* and history as they were; update_count is as it was too, except that a
\* failing update call has counted itself: it is larger by exactly 1.
C6_AtomicButCounter ==
    [][err' # "none" =>
        /\ _sum' = _sum
        /\ _num_examples' = _num_examples
        /\ stored_values' = stored_values
        /\ total_updates' = IF op' = "update" THEN total_updates + 1
                            ELSE total_updates]_vars

\* an update failed on an accumulator that already held samples
C6_Witness ==
    /\ op = "update"
    /\ err = "ShapeError"
    /\ _num_examples > 0
    /\ _sum # Zero

\* C7: a Generic-Loss update raises ShapeError exactly when the loss
\* function's return has nonzero rank; then running_sum and sample_count
\* are unchanged, and otherwise they grow by loss * n and by n, n being the
\* target's leading dimension.
C7_ShapeError ==
    [][(op' = "update" /\ cls = "Loss") =>
        /\ err' \in {"none", "ShapeError"}
        /\ err' = "ShapeError" <=> Len(average_loss'.shape) # 0
        /\ err' = "ShapeError" =>
            (_sum' = _sum /\ _num_examples' = _num_examples)
        /\ err' = "none" =>
            /\ _sum' = Add(_sum, MulInt(average_loss'.val, num'))
            /\ _num_examples' = _num_examples + num']_vars

\* a one-element tensor of rank one was rejected with samples accumulated
C7_Witness ==
    /\ cls = "Loss"
    /\ op = "update"
    /\ err = "ShapeError"
    /\ average_loss.shape = <<1>>
    /\ num > 0
    /\ _num_examples > 0

\* C8 (as claimed): sample_count >= 0 in every reachable state.
C8_NonNegative == _num_examples >= 0

\* C9: history only grows at its end, and it is the sequence of the values
\* returned by the successful compute(save=true) calls since construction,
\* resets notwithstanding.
C9_History ==
    /\ [](stored_values = returned)
    /\ [][IsPrefix(stored_values, stored_values')]_vars

\* a second value was saved after a reset and a further update
C9_Witness ==
    /\ op = "compute"
    /\ save
    /\ Len(stored_values) = 2
    /\ calls = 2
    /\ Len(batches) = 1

\* C10: compute() raises NoSampleError exactly when the weights of the
\* updates since the last reset (or construction) total 0, however many
\* updates there were.
C10_WeightNotCount ==
    op = "compute" =>
        (err = "NoSampleError" <=> WeightTotal(batches) = 0)

\* compute failed although updates had been made since the last reset
C10_Witness ==
    /\ op = "compute"
    /\ err = "NoSampleError"
    /\ Len(batches) > 0
    /\ total_updates > 0

====
